---- MODULE Spec2Model ----
(***************************************************************************)
(* Model of decode.py: the raw-image pipeline                              *)
(*     normalize -> demosaic -> white_balance -> gamma_correction          *)
(* with the arrays handed to imageio.imwrite recorded in order.            *)
(*                                                                         *)
(* Numbers.  A float64 is modelled as an exact rational in lowest terms,   *)
(* or one of the IEEE specials nan, +inf, -inf; rounding is not modelled.  *)
(* Arrays.   A numpy array is a record [shape, at]: shape is the tuple of  *)
(* its dimensions, at maps every index tuple (0-based) to its entry.       *)
(***************************************************************************)
EXTENDS Integers, Sequences, FiniteSets

(* ------------------------------ bounds -------------------------------- *)

\* sensor heights and widths range over 1..MaxDim
MaxDim == 4

\* gamma ranges over the integers -MaxGamma..MaxGamma
MaxGamma == 1

\* arrays passed to demosaic directly have heights and widths in 1..MaxCallDim
MaxCallDim == 6

\* images passed to white_balance and gamma_correction directly have heights
\* and widths in 1..MaxImageDim
MaxImageDim == 2

(* ------------------------------ float64 ------------------------------- *)

Abs(x) == IF x < 0 THEN -x ELSE x

RECURSIVE GCD(_, _)
GCD(a, b) == IF b = 0 THEN a ELSE GCD(b, a % b)

\* the rational n/d (d > 0) in lowest terms
Rat(n, d) ==
    LET g == GCD(Abs(n), d)
    IN  [k |-> "fin", n |-> n \div g, d |-> d \div g]

Num(i) == Rat(i, 1)
NaN == [k |-> "nan", n |-> 0, d |-> 1]
PInf == [k |-> "inf", n |-> 1, d |-> 1]
NInf == [k |-> "inf", n |-> -1, d |-> 1]

IsFinite(x) == x.k = "fin"
Sign(x) == IF x.n > 0 THEN 1 ELSE IF x.n < 0 THEN -1 ELSE 0
Signed(s) == IF s > 0 THEN PInf ELSE NInf

\* x <= y for two values that are not nan
Leq(x, y) ==
    IF x.k = "inf" THEN x.n < 0 \/ (y.k = "inf" /\ y.n > 0)
    ELSE IF y.k = "inf" THEN y.n > 0
    ELSE x.n * y.d <= y.n * x.d

\* float64 product: 0 * inf is nan, nan propagates
Mul(x, y) ==
    IF x.k = "nan" \/ y.k = "nan" THEN NaN
    ELSE IF x.k = "inf" \/ y.k = "inf"
         THEN IF Sign(x) * Sign(y) = 0 THEN NaN ELSE Signed(Sign(x) * Sign(y))
    ELSE Rat(x.n * y.n, x.d * y.d)

\* float64 sum: inf + (-inf) is nan, nan propagates
Add(x, y) ==
    IF x.k = "nan" \/ y.k = "nan" THEN NaN
    ELSE IF x.k = "inf" /\ y.k = "inf" THEN (IF x.n = y.n THEN x ELSE NaN)
    ELSE IF x.k = "inf" THEN x
    ELSE IF y.k = "inf" THEN y
    ELSE Rat(x.n * y.d + y.n * x.d, x.d * y.d)

\* float64 quotient x / y: no exception, x/0 is +-inf and 0/0 is nan
Div(x, y) ==
    IF x.k = "nan" \/ y.k = "nan" THEN NaN
    ELSE IF y.k = "inf" THEN (IF x.k = "inf" THEN NaN ELSE Num(0))
    ELSE IF x.k = "inf" THEN Signed(Sign(x) * (IF y.n < 0 THEN -1 ELSE 1))
    ELSE IF y.n = 0 THEN (IF x.n = 0 THEN NaN ELSE Signed(Sign(x)))
    ELSE IF y.n > 0 THEN Rat(x.n * y.d, x.d * y.n)
    ELSE Rat(-(x.n * y.d), x.d * (-y.n))

RECURSIVE IntPow(_, _)
IntPow(x, e) == IF e = 0 THEN Num(1) ELSE Mul(x, IntPow(x, e - 1))

\* np.power(x, g) for an integer-valued exponent g
Power(x, g) ==
    IF g = 0 THEN Num(1)
    ELSE IF x.k = "nan" THEN NaN
    ELSE IF g > 0 THEN IntPow(x, g)
    ELSE IntPow(Div(Num(1), x), -g)

\* np.clip with the lower clamp left out: minimum(x, hi)
ClipUpper(x, lo, hi) ==
    IF x.k = "nan" THEN NaN
    ELSE IF Leq(hi, x) THEN hi
    ELSE x

\* np.clip(x, lo, hi) = minimum(maximum(x, lo), hi); nan stays nan
Clip(x, lo, hi) ==
    IF x.k = "nan" THEN NaN
    ELSE IF Leq(x, lo) THEN lo
    ELSE IF Leq(hi, x) THEN hi
    ELSE x

RECURSIVE SumSeq(_)
SumSeq(s) == IF s = <<>> THEN Num(0) ELSE Add(Head(s), SumSeq(Tail(s)))

(* ------------------------------ arrays -------------------------------- *)

Idx2(h, w) == (0 .. h - 1) \X (0 .. w - 1)
Idx3(h, w, c) == (0 .. h - 1) \X (0 .. w - 1) \X (0 .. c - 1)

NoArray == [shape |-> <<>>, at |-> <<>>]

Array2(h, w, f(_, _)) ==
    [shape |-> <<h, w>>, at |-> [p \in Idx2(h, w) |-> f(p[1], p[2])]]

Array3(h, w, f(_, _, _)) ==
    [shape |-> <<h, w, 3>>, at |-> [p \in Idx3(h, w, 3) |-> f(p[1], p[2], p[3])]]

\* a Python list of lists as a 2-D array
FromRows(rows) ==
    LET F(i, j) == rows[i + 1][j + 1]
    IN  Array2(Len(rows), Len(rows[1]), F)

Entries(a) == {a.at[p] : p \in DOMAIN a.at}

\* np.zeros((h, w, 3))
Zeros3(h, w) ==
    LET F(i, j, c) == Num(0)
    IN  Array3(h, w, F)

\* numpy broadcasting of two dimensions: equal, or one of them is 1
DimOk(m, n) == m = n \/ m = 1 \/ n = 1
DimOf(m, n) == IF m = 1 THEN n ELSE m

\* the shapes of two 2-D operands can be broadcast together
Broadcastable(a, b) ==
    DimOk(a.shape[1], b.shape[1]) /\ DimOk(a.shape[2], b.shape[2])

\* a * b elementwise for broadcastable 2-D arrays
Multiply(a, b) ==
    LET Pick(n, i) == IF n = 1 THEN 0 ELSE i
        F(i, j) ==
            Mul(a.at[<<Pick(a.shape[1], i), Pick(a.shape[2], j)>>],
                b.at[<<Pick(b.shape[1], i), Pick(b.shape[2], j)>>])
    IN  Array2(DimOf(a.shape[1], b.shape[1]), DimOf(a.shape[2], b.shape[2]), F)

\* dst[:, :, i] = src is accepted: src broadcasts to the h x w slice
Assignable(src, h, w) ==
    /\ src.shape[1] = h \/ src.shape[1] = 1
    /\ src.shape[2] = w \/ src.shape[2] = 1

\* dst with dst[:, :, ch] = src (src broadcast to the slice)
SetChannel(dst, ch, src) ==
    LET Pick(n, i) == IF n = 1 THEN 0 ELSE i
        F(i, j, c) ==
            IF c = ch
            THEN src.at[<<Pick(src.shape[1], i), Pick(src.shape[2], j)>>]
            ELSE dst.at[<<i, j, c>>]
    IN  Array3(dst.shape[1], dst.shape[2], F)

\* numpy.matlib.repmat(a, m, n): a repeated m times down and n times across
repmat(a, m, n) ==
    LET F(i, j) == a.at[<<i % a.shape[1], j % a.shape[2]>>]
    IN  Array2(a.shape[1] * m, a.shape[2] * n, F)

\* scipy.ndimage mode='reflect' (d c b a | a b c d | d c b a), for a
\* 3 x 3 kernel: an index one step outside 0..n-1 maps to the edge sample
Reflect(i, n) == IF i < 0 THEN -i - 1 ELSE IF i >= n THEN 2 * n - 1 - i ELSE i

Taps == <<<<0, 0>>, <<0, 1>>, <<0, 2>>, <<1, 0>>, <<1, 1>>, <<1, 2>>,
          <<2, 0>>, <<2, 1>>, <<2, 2>>>>

\* scipy.ndimage.convolve(input, weights) with its defaults (mode='reflect',
\* origin=0): out[i, j] = sum over (a, b) of weights[a, b] * input[i+1-a, j+1-b]
convolve(input, weights) ==
    LET h == input.shape[1]
        w == input.shape[2]
        F(i, j) ==
            SumSeq([t \in 1 .. 9 |->
                Mul(weights.at[Taps[t]],
                    input.at[<<Reflect(i + 1 - Taps[t][1], h),
                               Reflect(j + 1 - Taps[t][2], w)>>])])
    IN  Array2(h, w, F)

(* ------------------------------ demosaic ------------------------------ *)

red_filter == FromRows(<<<<Num(1), Num(0)>>, <<Num(0), Num(0)>>>>)

green_filter == FromRows(<<<<Num(0), Num(1)>>, <<Num(1), Num(0)>>>>)

blue_filter == FromRows(<<<<Num(0), Num(0)>>, <<Num(0), Num(1)>>>>)

red_mask(height, width) == repmat(red_filter, height \div 2, width \div 2)

\* the green mask with the two repeat counts exchanged
geen_mask_swapped(height, width) == repmat(green_filter, width \div 2, height \div 2)

geen_mask(height, width) == repmat(green_filter, height \div 2, width \div 2)

blue_mask(height, width) == repmat(blue_filter, height \div 2, width \div 2)

color_names == <<"red", "green", "blue">>

color_filters(height, width) ==
    <<red_mask(height, width), geen_mask(height, width), blue_mask(height, width)>>

red_blue_interpolation ==
    FromRows(<<<<Rat(1, 4), Rat(2, 4), Rat(1, 4)>>,
               <<Rat(2, 4), Rat(4, 4), Rat(2, 4)>>,
               <<Rat(1, 4), Rat(2, 4), Rat(1, 4)>>>>)

green_interpolation ==
    FromRows(<<<<Rat(0, 4), Rat(1, 4), Rat(0, 4)>>,
               <<Rat(1, 4), Rat(4, 4), Rat(1, 4)>>,
               <<Rat(0, 4), Rat(1, 4), Rat(0, 4)>>>>)

\* the red/blue kernel used for all three channels
interpolation_same(i) == red_blue_interpolation

\* the three kernels in channel order, as used on lines 58-60
interpolation(i) == IF i = 1 THEN green_interpolation ELSE red_blue_interpolation

\* image * filter followed by channel_image[:, :, i] = ... raises ValueError
\* when the operands do not broadcast or the product does not fit the slice
MaskFits(image, filter) ==
    /\ Broadcastable(image, filter)
    /\ Assignable(Multiply(image, filter), image.shape[1], image.shape[2])

\* one file written by imageio.imwrite: (data * 255).astype(np.uint8)
File(name, data) == [name |-> name, data |-> data]

\* lines 37-43: the channel images of the first n passes of the loop
ChannelFiles(image, n) ==
    LET height == image.shape[1]
        width == image.shape[2]
        filters == color_filters(height, width)
        channel_image(i) ==
            SetChannel(Zeros3(height, width), i, Multiply(image, filters[i + 1]))
    IN  [i \in 1 .. n |-> File(color_names[i], channel_image(i - 1))]

\* the passes of the loop of lines 37-43 that end without an exception
PassesDone(image) ==
    LET filters == color_filters(image.shape[1], image.shape[2])
        bad == {i \in 1 .. 3 : ~MaskFits(image, filters[i])}
    IN  IF bad = {} THEN 3 ELSE (CHOOSE i \in bad : \A k \in bad : i <= k) - 1

\* lines 57-60: each masked channel convolved with its kernel, stacked
Interpolate(image) ==
    LET height == image.shape[1]
        width == image.shape[2]
        filters == color_filters(height, width)
        interpolated ==
            [c \in 0 .. 2 |->
                convolve(Multiply(image, filters[c + 1]), interpolation(c))]
        Stacked(i, j, c) == interpolated[c].at[<<i, j>>]
    IN  Array3(height, width, Stacked)

\* image[:2 * (height // 2), :2 * (width // 2)]
Crop(image) ==
    LET F(i, j) == image.at[<<i, j>>]
    IN  Array2(2 * (image.shape[1] \div 2), 2 * (image.shape[2] \div 2), F)

\* demosaic, had it cut the array down to whole 2 x 2 blocks instead of failing
demosaic_cropped(image) ==
    [err |-> "none",
     ret |-> Interpolate(Crop(image)),
     masks |-> color_filters(image.shape[1], image.shape[2]),
     written |-> ChannelFiles(Crop(image), 3)]

\* demosaic(image, extension, output): the outcome of the call, with the
\* masks it built and the channel images it wrote
demosaic(image) ==
    IF PassesDone(image) < 3
    THEN [err |-> "ValueError", ret |-> NoArray,
          masks |-> color_filters(image.shape[1], image.shape[2]),
          written |-> ChannelFiles(image, PassesDone(image))]
    ELSE [err |-> "none",
          ret |-> Interpolate(image),
          masks |-> color_filters(image.shape[1], image.shape[2]),
          written |-> ChannelFiles(image, 3)]

(* ---------------------------- white_balance --------------------------- *)

\* white_reference as decode receives it: a list of three gains, a tuple
\* (row, col), or any other literal
ListRef(g0, g1, g2) == [type |-> "list", value |-> <<g0, g1, g2>>]
TupleRef(r, c) == [type |-> "tuple", value |-> <<r, c>>]
OtherRef == [type |-> "other", value |-> <<>>]
NoRef == [type |-> "none", value |-> <<>>]

\* numpy indexing of one axis of size n: -n..n-1 is accepted, a negative
\* index counts from the end; anything else raises IndexError
IndexOk(i, n) == -n <= i /\ i < n
Index(i, n) == IF i < 0 THEN i + n ELSE i

\* image[white_reference[0], white_reference[1], ch]
PixelAt(image, rc, ch) ==
    image.at[<<Index(rc[1], image.shape[1]), Index(rc[2], image.shape[2]), ch>>]

\* the pixel reference with the gain of channel 0 used for every channel
reference_gray(image, white_reference) ==
    IF white_reference.type = "list"
    THEN white_reference.value
    ELSE [ch \in 1 .. 3 |-> Div(Num(1), PixelAt(image, white_reference.value, 0))]

\* the array `reference` of lines 70 and 73-77
reference(image, white_reference) ==
    IF white_reference.type = "list"
    THEN white_reference.value
    ELSE [ch \in 1 .. 3 |-> Div(Num(1), PixelAt(image, white_reference.value, ch - 1))]

\* np.clip(image * reference, 0., 1.): reference broadcast along the channels
Balance(image, ref) ==
    LET F(i, j, c) == Clip(Mul(image.at[<<i, j, c>>], ref[c + 1]), Num(0), Num(1))
    IN  Array3(image.shape[1], image.shape[2], F)

\* white_balance(image, white_reference): the outcome of the call
white_balance(image, white_reference) ==
    IF white_reference.type \notin {"list", "tuple"}
    THEN [err |-> "UnboundLocalError", ret |-> NoArray]
    ELSE IF /\ white_reference.type = "tuple"
            /\ ~(/\ IndexOk(white_reference.value[1], image.shape[1])
                 /\ IndexOk(white_reference.value[2], image.shape[2]))
    THEN [err |-> "IndexError", ret |-> NoArray]
    ELSE [err |-> "none", ret |-> Balance(image, reference(image, white_reference))]

(* --------------------------- gamma_correction ------------------------- *)

\* gamma_correction(image, gamma): np.power(image, gamma), no check of gamma
gamma_correction(image, gamma) ==
    LET F(i, j, c) == Power(image.at[<<i, j, c>>], gamma)
    IN  [err |-> "none", ret |-> Array3(image.shape[1], image.shape[2], F)]

(* ------------------------------- decode ------------------------------- *)

RECURSIVE MinOf(_)
MinOf(S) ==
    LET x == CHOOSE y \in S : TRUE
    IN  IF S = {x} THEN x
        ELSE LET m == MinOf(S \ {x}) IN IF Leq(x, m) THEN x ELSE m

RECURSIVE MaxOf(_)
MaxOf(S) ==
    LET x == CHOOSE y \in S : TRUE
    IN  IF S = {x} THEN x
        ELSE LET m == MaxOf(S \ {x}) IN IF Leq(m, x) THEN x ELSE m

\* (raw - raw.min()) / (raw.max() - raw.min())
rescale(raw_image) ==
    LET lo == MinOf(Entries(raw_image))
        hi == MaxOf(Entries(raw_image))
        range == Add(hi, Mul(Num(-1), lo))
        F(i, j) == Div(Add(raw_image.at[<<i, j>>], Mul(Num(-1), lo)), range)
    IN  Array2(raw_image.shape[1], raw_image.shape[2], F)

(* ------------------------------- state -------------------------------- *)

VARIABLES
    pc,               \* where the run stands
    raw,              \* raw.raw_image_visible
    rescaled,         \* decode's rescaled; the image argument of demosaic
    masks,            \* demosaic's color_filters: red_mask, geen_mask, blue_mask
    demosaiced,       \* demosaic's result; the image argument of white_balance
    white_reference,  \* the white_reference argument
    while_balanced,   \* white_balance's result; the image argument of gamma_correction
    gamma,            \* the gamma argument
    gamma_corrected,  \* gamma_correction's result
    written,          \* the arrays handed to imageio.imwrite, in order
    err,              \* the exception that ended the run, or "none"
    calls             \* the stages run so far: function, arguments, outcome

vars == <<pc, raw, rescaled, masks, demosaiced, white_reference, while_balanced,
          gamma, gamma_corrected, written, err, calls>>

Call(fn, image, param, out) ==
    [fn |-> fn, image |-> image, param |-> param, err |-> out.err, ret |-> out.ret]

(* ------------------------------- inputs ------------------------------- *)

Shapes == (1 .. MaxDim) \X (1 .. MaxDim)

\* a 2 x 2 pattern t repeated over an h x w array (cut off where h or w is odd)
Tiled(h, w, t) ==
    LET F(i, j) == t[<<i % 2, j % 2>>]
    IN  Array2(h, w, F)

\* the h x w array holding 0, 1, 2, ... in row-major order
Ramp(h, w) ==
    LET F(i, j) == Num(i * w + j)
    IN  Array2(h, w, F)

\* sensor counts of the raw file (uint16)
RawLevels == {Num(0), Num(1)}

RawSensors ==
    UNION {{Tiled(s[1], s[2], t) : t \in [Idx2(2, 2) -> RawLevels]} \cup {Ramp(s[1], s[2])}
           : s \in Shapes}

Gains == {Num(-1), Num(0), Rat(1, 2), Num(2)}

\* row and column references: inside every image, and outside on both sides
Coords == -(MaxDim + 1) .. MaxDim

WhiteReferences ==
    {ListRef(g[1], g[2], g[3]) : g \in Gains \X Gains \X Gains}
        \cup {TupleRef(rc[1], rc[2]) : rc \in Coords \X Coords}
        \cup {OtherRef}

Gammas == -MaxGamma .. MaxGamma

(* ------------------------------- decode ------------------------------- *)

Init ==
    /\ pc = "start"
    /\ raw \in RawSensors
    /\ rescaled = NoArray
    /\ masks = <<>>
    /\ demosaiced = NoArray
    /\ white_reference = NoRef
    /\ while_balanced = NoArray
    /\ gamma = "unset"
    /\ gamma_corrected = NoArray
    /\ written = <<>>
    /\ err = "none"
    /\ calls = <<>>

\* lines 93-97: rescale the sensor counts and write 01_scene_raw
Normalize ==
    /\ pc = "start"
    /\ rescaled' = rescale(raw)
    /\ written' = Append(written, File("01_scene_raw", rescaled'))
    /\ calls' = Append(calls,
           Call("normalize", raw, "-", [err |-> "none", ret |-> rescaled']))
    /\ pc' = "rescaled"
    /\ UNCHANGED <<raw, masks, demosaiced, white_reference, while_balanced, gamma,
                   gamma_corrected, err>>

\* lines 99-100: demosaic(rescaled, ...) and write 05_demoseiced
Demosaic ==
    /\ pc = "rescaled"
    /\ LET out == demosaic(rescaled)
       IN  /\ masks' = out.masks
           /\ calls' = Append(calls, Call("demosaic", rescaled, "-", out))
           /\ err' = out.err
           /\ IF out.err = "none"
              THEN /\ demosaiced' = out.ret
                   /\ written' = written \o out.written
                                     \o <<File("05_demoseiced", out.ret)>>
                   /\ pc' = "demosaiced"
              ELSE /\ pc' = "failed"
                   /\ UNCHANGED <<demosaiced, written>>
    /\ UNCHANGED <<raw, rescaled, white_reference, while_balanced, gamma,
                   gamma_corrected>>

\* the image decode hands to white_balance: demosaiced.copy()
WhiteBalanceImage == demosaiced

\* lines 102-103: white_balance(demosaiced.copy(), white_reference), write 06_wb
WhiteBalance ==
    /\ pc = "demosaiced"
    /\ \E ref \in WhiteReferences :
           LET out == white_balance(WhiteBalanceImage, ref)
           IN  /\ white_reference' = ref
               /\ calls' = Append(calls,
                      Call("white_balance", WhiteBalanceImage, ref, out))
               /\ err' = out.err
               /\ IF out.err = "none"
                  THEN /\ while_balanced' = out.ret
                       /\ written' = Append(written, File("06_wb", out.ret))
                       /\ pc' = "balanced"
                  ELSE /\ pc' = "failed"
                       /\ UNCHANGED <<while_balanced, written>>
    /\ UNCHANGED <<raw, rescaled, masks, demosaiced, gamma, gamma_corrected>>

\* the gamma stage fed the demosaiced image instead of the white-balanced one
GammaCorrectionOfDemosaiced ==
    /\ pc = "balanced"
    /\ \E g \in Gammas :
           LET out == gamma_correction(demosaiced, g)
           IN  /\ gamma' = g
               /\ calls' = Append(calls,
                      Call("gamma_correction", demosaiced, g, out))
               /\ gamma_corrected' = out.ret
               /\ written' = Append(written, File("07_gamma", out.ret))
    /\ pc' = "done"
    /\ UNCHANGED <<raw, rescaled, masks, demosaiced, white_reference,
                   while_balanced, err>>

\* lines 105-106: gamma_correction(while_balanced, gamma), write 07_gamma
GammaCorrection ==
    /\ pc = "balanced"
    /\ \E g \in Gammas :
           LET out == gamma_correction(while_balanced, g)
           IN  /\ gamma' = g
               /\ calls' = Append(calls,
                      Call("gamma_correction", while_balanced, g, out))
               /\ gamma_corrected' = out.ret
               /\ written' = Append(written, File("07_gamma", out.ret))
    /\ pc' = "done"
    /\ UNCHANGED <<raw, rescaled, masks, demosaiced, white_reference,
                   while_balanced, err>>

Next == Normalize \/ Demosaic \/ WhiteBalance \/ GammaCorrection

Spec == Init /\ [][Next]_vars

(* --------------------- the three stages called directly --------------- *)

\* normalized samples
Samples == {Num(0), Rat(1, 2), Num(1)}

DemosaicImages ==
    UNION {{Tiled(s[1], s[2], t) : t \in [Idx2(2, 2) -> Samples]}
           : s \in (1 .. MaxCallDim) \X (1 .. MaxCallDim)}

\* channel values inside and outside [0, 1]
PixelValues == {Num(-1), Num(0), Rat(1, 2), Num(2)}

Palette ==
    << <<Rat(1, 2), Num(1), Num(2)>>,
       <<Num(0), Num(0), Num(0)>>,
       <<Num(-1), Rat(1, 4), Num(3)>>,
       <<Num(1), Num(0), Rat(1, 2)>>,
       <<Num(2), Rat(1, 2), Rat(1, 4)>> >>

\* the h x w x 3 image whose pixels run through Palette from place shift on
PaletteImage(h, w, shift) ==
    LET F(i, j, c) == Palette[((i * w + j + shift) % Len(Palette)) + 1][c + 1]
    IN  Array3(h, w, F)

\* the 1 x 1 x 3 image of one pixel
OnePixel(px) ==
    LET F(i, j, c) == px[c + 1]
    IN  Array3(1, 1, F)

ColorImages ==
    {OnePixel(px) : px \in PixelValues \X PixelValues \X PixelValues}
        \cup {PaletteImage(s[1], s[2], shift) :
                  s \in (1 .. MaxImageDim) \X (1 .. MaxImageDim),
                  shift \in 0 .. Len(Palette) - 1}

CallCoords == -(MaxImageDim + 1) .. MaxImageDim

CallReferences ==
    {ListRef(g[1], g[2], g[3]) : g \in Gains \X Gains \X Gains}
        \cup {TupleRef(rc[1], rc[2]) : rc \in CallCoords \X CallCoords}
        \cup {OtherRef}

InitCalls ==
    /\ pc = "idle"
    /\ raw = NoArray
    /\ rescaled = NoArray
    /\ masks = <<>>
    /\ demosaiced = NoArray
    /\ white_reference = NoRef
    /\ while_balanced = NoArray
    /\ gamma = "unset"
    /\ gamma_corrected = NoArray
    /\ written = <<>>
    /\ err = "none"
    /\ calls = <<>>

\* demosaic(image, extension, output)
CallDemosaic ==
    /\ pc = "idle"
    /\ \E image \in DemosaicImages :
           LET out == demosaic(image)
           IN  /\ rescaled' = image
               /\ masks' = out.masks
               /\ demosaiced' = out.ret
               /\ written' = out.written
               /\ err' = out.err
               /\ calls' = <<Call("demosaic", image, "-", out)>>
    /\ pc' = "returned"
    /\ UNCHANGED <<raw, white_reference, while_balanced, gamma, gamma_corrected>>

\* white_balance(image, white_reference)
CallWhiteBalance ==
    /\ pc = "idle"
    /\ \E image \in ColorImages, ref \in CallReferences :
           LET out == white_balance(image, ref)
           IN  /\ demosaiced' = image
               /\ white_reference' = ref
               /\ while_balanced' = out.ret
               /\ err' = out.err
               /\ calls' = <<Call("white_balance", image, ref, out)>>
    /\ pc' = "returned"
    /\ UNCHANGED <<raw, rescaled, masks, gamma, gamma_corrected, written>>

\* gamma_correction(image, gamma)
CallGammaCorrection ==
    /\ pc = "idle"
    /\ \E image \in ColorImages, g \in Gammas :
           LET out == gamma_correction(image, g)
           IN  /\ while_balanced' = image
               /\ gamma' = g
               /\ gamma_corrected' = out.ret
               /\ err' = out.err
               /\ calls' = <<Call("gamma_correction", image, g, out)>>
    /\ pc' = "returned"
    /\ UNCHANGED <<raw, rescaled, masks, demosaiced, white_reference, written>>

NextCalls == CallDemosaic \/ CallWhiteBalance \/ CallGammaCorrection

SpecCalls == InitCalls /\ [][NextCalls]_vars

(* ----------------------------- properties ------------------------------ *)

\* a finite value in [0, 1]
InUnit(x) == x.k = "fin" /\ Leq(Num(0), x) /\ Leq(x, Num(1))

AllFinite(a) == \A p \in DOMAIN a.at : IsFinite(a.at[p])

Even(n) == n % 2 = 0

EvenShape(a) == Even(a.shape[1]) /\ Even(a.shape[2])

CallsOf(fn) == {i \in 1 .. Len(calls) : calls[i].fn = fn}

\* the call failed and handed nothing back
Raised(call) == call.err # "none" /\ call.ret = NoArray

\* the tuple reference (r, c) names a pixel of the image
InBounds(call) ==
    /\ call.param.value[1] \in 0 .. call.image.shape[1] - 1
    /\ call.param.value[2] \in 0 .. call.image.shape[2] - 1

\* the channel values of the referenced pixel
RefPixel(call) ==
    [ch \in 1 .. 3 |->
        call.image.at[<<call.param.value[1], call.param.value[2], ch - 1>>]]

\* C1: for even height and width the three masks built by demosaic have the
\* shape of the sensor array and partition it: red is nonzero exactly at
\* (even row, even col), blue exactly at (odd row, odd col), green exactly at
\* the two other places of each 2 x 2 block, so exactly one mask is nonzero
\* at every position.
C1_MasksPartition ==
    \A i \in CallsOf("demosaic") :
        EvenShape(calls[i].image) =>
            LET h == calls[i].image.shape[1]
                w == calls[i].image.shape[2]
                NonZero(k, p) == masks[k].at[p] # Num(0)
            IN  /\ \A k \in 1 .. 3 : masks[k].shape = <<h, w>>
                /\ \A p \in Idx2(h, w) :
                       /\ NonZero(1, p) <=> (Even(p[1]) /\ Even(p[2]))
                       /\ NonZero(3, p) <=> (~Even(p[1]) /\ ~Even(p[2]))
                       /\ NonZero(2, p) <=> (Even(p[1]) # Even(p[2]))
                       /\ Cardinality({k \in 1 .. 3 : NonZero(k, p)}) = 1

C1_Witness ==
    \E i \in CallsOf("demosaic") : calls[i].image.shape = <<4, 2>> /\ Len(masks) = 3

C3_DegenerateGainRaised ==
    \A i \in CallsOf("white_balance") :
        (/\ calls[i].param.type = "tuple"
         /\ InBounds(calls[i])
         /\ \E ch \in 1 .. 3 : RefPixel(calls[i])[ch] = Num(0))
            => Raised(calls[i])

\* C4: gamma_correction with gamma <= 0 ends in an error and returns no image.
C4_InvalidGammaRaised ==
    \A i \in CallsOf("gamma_correction") :
        calls[i].param <= 0 => Raised(calls[i])

\* C5: white_balance with a tuple reference outside the image (row not in
\* 0..H-1 or column not in 0..W-1) ends in an error and returns no image.
C5_OutOfBoundsRaised ==
    \A i \in CallsOf("white_balance") :
        (calls[i].param.type = "tuple" /\ ~InBounds(calls[i])) => Raised(calls[i])

\* C6: demosaic on an array of odd height or odd width ends in an error
\* that reaches the caller: nothing is returned and nothing is written.
C6_OddDimensionsRaise ==
    \A i \in CallsOf("demosaic") :
        ~EvenShape(calls[i].image) =>
            /\ Raised(calls[i])
            /\ err = calls[i].err
            /\ demosaiced = NoArray
            /\ \A f \in 1 .. Len(written) : written[f].name = "01_scene_raw"

C6_Witness ==
    \E i \in CallsOf("demosaic") :
        calls[i].image.shape = <<1, 2>> /\ calls[i].err = "ValueError"

StageOrder == <<"normalize", "demosaic", "white_balance", "gamma_correction">>

\* C7: the stages of a decode run are an initial part of normalize,
\* demosaic, white_balance, gamma_correction, in that order and once each;
\* every stage after the first takes the image the stage before it returned;
\* a stage that fails is the last one of the run.
C7_LinearPipeline ==
    /\ Len(calls) <= Len(StageOrder)
    /\ \A i \in 1 .. Len(calls) :
           /\ calls[i].fn = StageOrder[i]
           /\ i > 1 => calls[i].image = calls[i - 1].ret
           /\ i < Len(calls) => calls[i].err = "none"
    /\ (pc = "failed") <=> (err # "none")
    /\ err # "none" => (calls # <<>> /\ calls[Len(calls)].err = err)

C7_Witness ==
    pc = "done" /\ Len(calls) = 4 /\ calls[3].ret # calls[2].ret

\* C8: demosaic of an even-sized array holding one constant c returns c in
\* all three channels at every pixel off the border.
C8_ConstantPreserved ==
    \A i \in CallsOf("demosaic") :
        (EvenShape(calls[i].image) /\ Cardinality(Entries(calls[i].image)) = 1) =>
            LET h == calls[i].image.shape[1]
                w == calls[i].image.shape[2]
            IN  /\ calls[i].err = "none"
                /\ \A r \in 1 .. h - 2, c \in 1 .. w - 2, ch \in 0 .. 2 :
                       calls[i].ret.at[<<r, c, ch>>] = calls[i].image.at[<<r, c>>]

C8_Witness ==
    \E i \in CallsOf("demosaic") :
        /\ calls[i].image.shape = <<4, 4>>
        /\ Entries(calls[i].image) = {Rat(1, 2)}
        /\ calls[i].ret.at[<<1, 2, 1>>] = Rat(1, 2)

\* C9: white_balance with a tuple reference naming a pixel whose three
\* channel values v0, v1, v2 are positive returns, at every pixel p and
\* channel ch, image[p, ch] / v_ch clamped to [0, 1]; the referenced pixel
\* comes out as (1, 1, 1).
C9_ReciprocalGain ==
    \A i \in CallsOf("white_balance") :
        (/\ calls[i].param.type = "tuple"
         /\ InBounds(calls[i])
         /\ \A ch \in 1 .. 3 :
                IsFinite(RefPixel(calls[i])[ch]) /\ RefPixel(calls[i])[ch].n > 0
         /\ AllFinite(calls[i].image))
            => /\ calls[i].err = "none"
               /\ \A p \in DOMAIN calls[i].image.at :
                      calls[i].ret.at[p] =
                          Clip(Div(calls[i].image.at[p], RefPixel(calls[i])[p[3] + 1]),
                               Num(0), Num(1))
               /\ \A ch \in 0 .. 2 :
                      calls[i].ret.at[<<calls[i].param.value[1],
                                        calls[i].param.value[2], ch>>] = Num(1)

C9_Witness ==
    \E i \in CallsOf("white_balance") :
        /\ calls[i].param = TupleRef(1, 0)
        /\ calls[i].image.shape = <<2, 2, 3>>
        /\ RefPixel(calls[i]) = <<Rat(1, 2), Num(1), Num(2)>>
        /\ calls[i].err = "none"

\* C10: in a decode run on an even-sized sensor array that is not constant,
\* every array handed to the image writer has all its entries in [0, 1].
C10_WrittenInUnit ==
    (raw # NoArray /\ EvenShape(raw) /\ Cardinality(Entries(raw)) > 1) =>
        \A f \in 1 .. Len(written) :
            \A p \in DOMAIN written[f].data.at : InUnit(written[f].data.at[p])

====
